---- MODULE Spec2Model ----
(***************************************************************************)
(* Model of the CPG product image generator: the command line driver       *)
(* (main.py), the two generation methods (methods/), the calls they make   *)
(* to the external collaborators (models/) and the mask arithmetic         *)
(* (modules/mask_processor.py).                                            *)
(*                                                                         *)
(* Text is modelled as a sequence of tokens: an f-string becomes the       *)
(* concatenation of its literal parts and of its arguments, so that "the   *)
(* prompt contains X" is membership of a token.  Python's None is the      *)
(* empty sequence for texts, "" for names and NoPath for paths.            *)
(***************************************************************************)
EXTENDS Integers, Sequences, FiniteSets, TLC

VARIABLES
    args,            \* argparse namespace of main()
    env_key,         \* value of GEMINI_API_KEY in the environment
    config,          \* configuration dictionary (mutated by --no-enhance)
    pc,              \* position of main()
    m1,              \* Method1ControlNetInpaint instance
    m2,              \* Method2NanoBananaComposite instance
    loop,            \* loop state of generate_with_variations / generate_multiple_variations
    call,            \* frame of the running generate() call
    results,         \* result paths returned to main (result_path / result_paths / result1, result2)
    saved,           \* images written by ImageLoader.save_image, in order
    requests,        \* calls of NanoBananaAPI.generate_background: argument and text sent
    pipe_calls,      \* calls of the ControlNet inpainting pipeline with their parameters
    enhancer_calls,  \* calls of SmartPromptEnhancer.enhance_for_*
    mk,              \* state of the mask computation (MaskSpec)
    log,             \* records handed to the logger that are built from the arguments or the key
    in_progress,     \* external collaborator calls that were made and have not returned
    comp             \* state of a CompositingEngine.composite call (CompositeSpec)

vars == <<args, env_key, config, pc, m1, m2, loop, call, results, saved,
          requests, pipe_calls, enhancer_calls, mk, log, in_progress, comp>>

(***************************************************************************)
(* Bounds of the model                                                     *)
(***************************************************************************)
MaxVariations == 2

(***************************************************************************)
(* Values                                                                  *)
(***************************************************************************)
None == << >>
NoStyle == ""
NoMethod == ""
NoKey == << >>
NoPath == [name |-> << >>, ext |-> ""]

Prompts == {None, <<"tropical beach vibes">>}
Products == {None, <<"energy drink can">>}
Methods == {"method1_controlnet", "method2_nanobanan", "both"}
Presets == {"vibrant_genz"}
Styles == {NoStyle, "vibrant_genz", "unknown_style"}
Outputs == {NoPath, [name |-> <<"custom">>, ext |-> "png"],
            [name |-> <<"custom">>, ext |-> "out"]}
\* a key is the sequence of its characters
LongKey == <<"A", "I", "z", "a", "S", "y", "0", "1", "2", "3", "4", "5", "6">>
ShortKey == <<"A", "I", "z", "a", "S", "y", "0", "1", "2", "3", "4", "5">>
Keys == {NoKey, LongKey}
EnvKeys == Keys \cup {ShortKey}

\* texts an LLM call may answer with
LLMTexts == {<<"llm text A">>, <<"llm text B">>}
\* outcome of a call to the prompt LLM: an answer, or no answer
\* (no model, no key, or the request raised)
Unavailable == <<"<unavailable>">>
LLMOutcomes == LLMTexts \cup {Unavailable}

Contains(text, tok) == \E i \in DOMAIN text : text[i] = tok

(***************************************************************************)
(* ImageLoader.save_image: the suffix decides the format, an unknown       *)
(* suffix is replaced by .png; the path written is returned.               *)
(***************************************************************************)
save_image(output_path) ==
    IF output_path.ext \in {"png", "jpg", "jpeg", "webp"}
    THEN output_path
    ELSE [output_path EXCEPT !.ext = "png"]

\* output_dir / f"{input_name}_{method}_result.png"
ResultPath(method) == [name |-> <<"input", method, "result">>, ext |-> "png"]
\* output_dir / f"{input_name}_{method}_var{i+1}.png"
VarPath(method, i) == [name |-> <<"input", method, "var", ToString(i + 1)>>, ext |-> "png"]

(***************************************************************************)
(* Style presets (config/style_presets.yaml)                               *)
(***************************************************************************)
PresetPrompt == [n \in Presets |-> "<preset prompt of vibrant_genz>"]

\* _apply_style_preset: f"{base_prompt}, {preset['prompt']}" when the preset
\* exists, the base prompt otherwise
apply_style_preset(base_prompt, preset_name) ==
    IF preset_name \in Presets
    THEN base_prompt \o <<",", PresetPrompt[preset_name]>>
    ELSE base_prompt

(***************************************************************************)
(* AutoPromptGenerator                                                     *)
(***************************************************************************)
\* results of analyze_and_generate_prompts (LLM answer or random template)
Analyses ==
    { [product_description |-> <<p>>, background_prompt |-> <<b>>,
       style_suggestion |-> <<"modern, clean">>] :
        p \in {"colorful packaged consumer product"},
        b \in {"urban street art", "soft pastel bokeh"} }

generate_for_method1(analysis) ==
    <<"This photo showcases">> \o analysis.product_description
    \o <<"placed in">> \o analysis.background_prompt
    \o <<"The overall image maintains a">> \o analysis.style_suggestion
    \o <<"visual style, with professional commercial photography lighting.">>

generate_for_method2(analysis) ==
    <<"A creative background scene featuring">> \o analysis.background_prompt
    \o <<"Style:">> \o analysis.style_suggestion
    \o <<"Background only, no products, no text, no foreground objects.">>

(***************************************************************************)
(* SmartPromptEnhancer: the answer of the LLM, or the basic template when  *)
(* the LLM is unavailable or the request fails.  Neither method raises.    *)
(***************************************************************************)
enhance_for_controlnet(product_name, background_idea, outcome) ==
    IF outcome = Unavailable
    THEN <<"This photo showcases">> \o product_name
         \o <<"The product is clearly highlighted and placed in">> \o background_idea
    ELSE outcome

\* the two fallbacks of the source (no model / request failed) both embed
\* the background concept
enhance_for_nanobanan(background_concept, outcome) ==
    IF outcome = Unavailable
    THEN <<"A creative background featuring">> \o background_concept
         \o <<"Background only, no products.">>
    ELSE outcome

(***************************************************************************)
(* Method 2: _build_background_prompt                                      *)
(***************************************************************************)
build_background_prompt(prompt, style_preset, enhancer, outcome) ==
    LET styled == IF style_preset # NoStyle
                  THEN apply_style_preset(prompt, style_preset)
                  ELSE prompt
    IN  IF enhancer
        THEN enhance_for_nanobanan(styled, outcome)
             \o <<"Background only, no products, no text, no foreground objects.">>
        ELSE <<"A creative and visually stunning background scene featuring">>
             \o styled
             \o <<"Style:", "vibrant, creative",
                  "Background only, no products, no text, no objects in foreground.">>

(***************************************************************************)
(* NanoBananaAPI.generate_background: the text handed to                   *)
(* model.generate_content.                                                 *)
(***************************************************************************)
test_prompt == <<"Create a vibrant outdoor picnic scene background.">>

generate_background_contents(prompt) == test_prompt

(***************************************************************************)
(* Frames of generate()                                                    *)
(***************************************************************************)
NoCall == [method |-> "", stage |-> "none", prompt |-> None,
           product_description |-> None, style_preset |-> NoStyle,
           output_path |-> NoPath, final_prompt |-> None,
           product_used |-> None, image |-> "", stages |-> << >>]

NewCall(method, prompt, product, style, output) ==
    [NoCall EXCEPT !.method = method, !.stage = "load", !.prompt = prompt,
                   !.product_description = product, !.style_preset = style,
                   !.output_path = output]

Stage(s) == [call EXCEPT !.stage = s, !.stages = Append(@, call.stage)]

NoLoop == [i |-> 0, n |-> 0, prompts_list |-> << >>]

\* an exception of Method 1 swallowed in 'both' mode
Fail_continues_with_method2 ==
    /\ pc' = IF pc = "both_m1" THEN "construct2" ELSE "failed"
    /\ call' = [call EXCEPT !.stage = "raised"]

\* an exception leaves generate() (logged and re-raised) and is caught by
\* the handler of main, which returns
Fail ==
    /\ pc' = "failed"
    /\ call' = [call EXCEPT !.stage = "raised"]

(***************************************************************************)
(* Log records.  A record is the text of the message; a key takes part in  *)
(* it character by character.                                              *)
(***************************************************************************)
\* repr() of an optional text and of an optional name
repr(text) == IF text = None THEN <<"None">> ELSE <<"'">> \o text \o <<"'">>
repr_name(name) == IF name = "" THEN <<"None">> ELSE <<"'", name, "'">>

\* str(args): argparse prints every attribute of the namespace with its repr
Namespace_repr ==
    <<"Namespace(", "prompt=">> \o repr(args.prompt)
    \o <<", product=">> \o repr(args.product)
    \o <<", method=">> \o repr_name(args.method)
    \o <<", style=">> \o repr_name(args.style)
    \o <<", output=">> \o repr(args.output.name \o
                                (IF args.output.ext = "" THEN << >>
                                 ELSE <<".", args.output.ext>>))
    \o <<", api_key=">> \o repr(args.api_key)
    \o <<", variations=", ToString(args.variations),
          ", no_enhance=", ToString(args.no_enhance), ")">>

\* logger.info(f"Arguments parsed: {args}")
arguments_parsed_record == <<"Arguments parsed: ">> \o Namespace_repr

\* api_key[:8] + '...' + api_key[-4:] if len(api_key) > 12 else '***'
masked_key(api_key) ==
    IF Len(api_key) > 12
    THEN SubSeq(api_key, 1, 8) \o <<"...">>
         \o SubSeq(api_key, Len(api_key) - 3, Len(api_key))
    ELSE <<"***">>

\* EnvLoader.get_api_key: the records it logs for the key of the environment
get_api_key_records(required) ==
    IF env_key # NoKey
    THEN << <<"API key loaded: ">> \o masked_key(env_key) >>
    ELSE IF required
         THEN << <<"API key '", "GEMINI_API_KEY", "' not found in environment!">>,
                 <<"Please set it in .env file or via command line">> >>
         ELSE << <<"API key '", "GEMINI_API_KEY", "' not found - using fallback mode">> >>

\* AutoPromptGenerator.__init__: the key argument, else get_api_key(required=False)
AutoPromptGenerator_records ==
    IF args.api_key # NoKey THEN << >> ELSE get_api_key_records(FALSE)

\* NanoBananaAPI.__init__: the key argument, else get_api_key(required=True)
NanoBananaAPI_records ==
    IF args.api_key # NoKey THEN << >> ELSE get_api_key_records(TRUE)

(***************************************************************************)
(* main()                                                                  *)
(***************************************************************************)
Method == IF args.method # NoMethod THEN args.method ELSE config.method

\* parse the arguments, load the configuration, apply --no-enhance, check
\* the input file and select the branch
main_start ==
    /\ pc = "start"
    /\ config' = IF args.no_enhance
                 THEN [config EXCEPT !.prompt_enhancement_enabled = FALSE,
                                     !.use_smart_enhancer = FALSE]
                 ELSE config
    /\ pc' = IF ~args.input_exists THEN "done"
             ELSE IF Method = "method2_nanobanan" THEN "construct2"
             ELSE "construct1"
    /\ log' = Append(log, arguments_parsed_record)
    /\ UNCHANGED <<args, env_key, comp, in_progress, m1, m2, loop, call, results, saved,
                   requests, pipe_calls, enhancer_calls, mk>>

\* Method1ControlNetInpaint.__init__
Method1_init ==
    /\ pc = "construct1"
    /\ m1' = [constructed |-> TRUE, prompt_enhancer |-> config.use_smart_enhancer]
    /\ IF Method = "both"
       THEN pc' = "both_m1" /\ loop' = loop
       ELSE IF args.variations > 1
            THEN pc' = "m1_vars"
                 /\ loop' = [i |-> 0, n |-> args.variations, prompts_list |-> << >>]
            ELSE pc' = "m1_single" /\ loop' = loop
    /\ log' = log \o AutoPromptGenerator_records
    /\ UNCHANGED <<args, env_key, comp, in_progress, config, m2, call, results, saved,
                   requests, pipe_calls, enhancer_calls, mk>>

\* NanoBananaAPI.__init__: the key argument, else the environment; no key raises
NanoBanana_api_key == IF args.api_key # NoKey THEN args.api_key ELSE env_key

\* Method2NanoBananaComposite.__init__
Method2_init ==
    /\ pc = "construct2"
    /\ IF NanoBanana_api_key = NoKey
       THEN /\ pc' = "failed" /\ UNCHANGED m2
            /\ log' = log \o NanoBananaAPI_records
       ELSE /\ log' = log \o NanoBananaAPI_records \o AutoPromptGenerator_records
            /\ m2' = [constructed |-> TRUE,
                      prompt_enhancer |-> config.enhance_background_prompts]
            /\ pc' = IF Method = "both" THEN "both_m2"
                     ELSE IF args.variations > 1 THEN "m2_vars_start"
                     ELSE "m2_single"
    /\ UNCHANGED <<args, env_key, comp, in_progress, config, m1, loop, call, results, saved,
                   requests, pipe_calls, enhancer_calls, mk>>

\* main: prompts_list = [args.prompt] * args.variations if args.prompt else None
main_prompts_list ==
    IF args.prompt # None THEN [j \in 1..args.variations |-> args.prompt] ELSE None

\* generate_multiple_variations: the list iterated over
AutoVariations == 3
variation_prompts(prompts_list) ==
    IF prompts_list = None THEN [j \in 1..AutoVariations |-> None] ELSE prompts_list

generate_multiple_variations_start ==
    /\ pc = "m2_vars_start"
    /\ loop' = [i |-> 0, n |-> Len(variation_prompts(main_prompts_list)),
                prompts_list |-> variation_prompts(main_prompts_list)]
    /\ pc' = "m2_vars"
    /\ UNCHANGED <<args, env_key, comp, log, in_progress, config, m1, m2, call, results, saved,
                   requests, pipe_calls, enhancer_calls, mk>>

\* one iteration of the loop of generate_multiple_variations
generate_multiple_variations_iter ==
    /\ pc = "m2_vars" /\ call.stage = "none" /\ loop.i < loop.n
    /\ call' = NewCall("method2", loop.prompts_list[loop.i + 1], None,
                       args.style, VarPath("method2", loop.i))
    /\ UNCHANGED <<args, env_key, comp, log, in_progress, config, pc, m1, m2, loop, results, saved,
                   requests, pipe_calls, enhancer_calls, mk>>

\* one iteration of the loop of generate_with_variations (no style is passed)
generate_with_variations_iter ==
    /\ pc = "m1_vars" /\ call.stage = "none" /\ loop.i < loop.n
    /\ call' = NewCall("method1", args.prompt, args.product, NoStyle,
                       VarPath("method1", loop.i))
    /\ UNCHANGED <<args, env_key, comp, log, in_progress, config, pc, m1, m2, loop, results, saved,
                   requests, pipe_calls, enhancer_calls, mk>>

\* end of either loop: the list of results is returned and reported
variations_return ==
    /\ pc \in {"m1_vars", "m2_vars"} /\ call.stage = "none" /\ loop.i = loop.n
    /\ pc' = "done"
    /\ UNCHANGED <<args, env_key, comp, log, in_progress, config, m1, m2, loop, call, results, saved,
                   requests, pipe_calls, enhancer_calls, mk>>

\* main: method1.generate(...) of the single and of the 'both' branch
main_call_method1 ==
    /\ pc \in {"m1_single", "both_m1"} /\ call.stage = "none"
    /\ call' = NewCall("method1", args.prompt, args.product, args.style,
                       IF pc = "m1_single" THEN args.output ELSE NoPath)
    /\ UNCHANGED <<args, env_key, comp, log, in_progress, config, pc, m1, m2, loop, results, saved,
                   requests, pipe_calls, enhancer_calls, mk>>

\* main: method2.generate(...) of the single and of the 'both' branch
main_call_method2 ==
    /\ pc \in {"m2_single", "both_m2"} /\ call.stage = "none"
    /\ call' = NewCall("method2", args.prompt, None, args.style,
                       IF pc = "m2_single" THEN args.output ELSE NoPath)
    /\ UNCHANGED <<args, env_key, comp, log, in_progress, config, pc, m1, m2, loop, results, saved,
                   requests, pipe_calls, enhancer_calls, mk>>

(***************************************************************************)
(* External collaborators.  A stage of generate() that needs one makes the *)
(* call and goes on when the call has returned or raised: the calls are    *)
(* plain synchronous calls.                                                *)
(***************************************************************************)
Collaborators == {"segmentation", "prompt LLM", "diffusion inpainting",
                  "background generation"}

\* Method 2 reaches the prompt LLM through auto_prompt_gen when no prompt
\* was given and through the prompt enhancer when there is one
Method2_prompt_uses_llm == call.prompt = None \/ m2.prompt_enhancer

\* the collaborator the running stage calls, "" when it calls none
Method1_collaborator ==
    IF call.stage = "extract" THEN "segmentation"
    ELSE IF call.stage = "prompt" THEN "prompt LLM"
    ELSE IF call.stage = "inpaint" THEN "diffusion inpainting"
    ELSE ""

Method2_collaborator ==
    IF call.stage = "extract" THEN "segmentation"
    ELSE IF call.stage = "prompt" /\ Method2_prompt_uses_llm THEN "prompt LLM"
    ELSE IF call.stage = "background" THEN "background generation"
    ELSE ""

\* the call to collaborator was made and has not returned yet
Pending(collaborator) == collaborator \in in_progress

\* Method 1 calls the collaborator of its running stage
Method1_call_collaborator ==
    /\ call.method = "method1"
    /\ Method1_collaborator \in Collaborators \ in_progress
    /\ in_progress' = in_progress \cup {Method1_collaborator}
    /\ UNCHANGED <<args, env_key, comp, log, config, pc, m1, m2, loop, call, results, saved,
                   requests, pipe_calls, enhancer_calls, mk>>

\* Method 2 calls the collaborator of its running stage
Method2_call_collaborator ==
    /\ call.method = "method2"
    /\ Method2_collaborator \in Collaborators \ in_progress
    /\ in_progress' = in_progress \cup {Method2_collaborator}
    /\ UNCHANGED <<args, env_key, comp, log, config, pc, m1, m2, loop, call, results, saved,
                   requests, pipe_calls, enhancer_calls, mk>>

(***************************************************************************)
(* Method2NanoBananaComposite.generate, one action per stage               *)
(***************************************************************************)
\* Stage 1: image_loader.load_image (raises on an unreadable file)
Method2_load_image ==
    /\ call.method = "method2" /\ call.stage = "load"
    /\ \/ call' = Stage("extract") /\ pc' = pc
       \/ Fail
    /\ UNCHANGED <<args, env_key, comp, log, in_progress, config, m1, m2, loop, results, saved,
                   requests, pipe_calls, enhancer_calls, mk>>

\* Stage 2: fg_extractor.extract_foreground (segmentation model, may raise)
Method2_extract_foreground ==
    /\ call.method = "method2" /\ call.stage = "extract"
    /\ Pending("segmentation")
    /\ \/ call' = Stage("mask") /\ pc' = pc
       \/ Fail
    /\ in_progress' = in_progress \ {"segmentation"}
    /\ UNCHANGED <<args, env_key, comp, log, config, m1, m2, loop, results, saved,
                   requests, pipe_calls, enhancer_calls, mk>>

\* Stage 3: mask_processor.process_mask(mask, 'for_compositing')
Method2_process_mask ==
    /\ call.method = "method2" /\ call.stage = "mask"
    /\ call' = Stage("prompt")
    /\ UNCHANGED <<args, env_key, comp, log, in_progress, config, pc, m1, m2, loop, results, saved,
                   requests, pipe_calls, enhancer_calls, mk>>

\* Stage 4: the background prompt, auto-generated when prompt is None,
\* built by _build_background_prompt otherwise
Method2_background_prompt ==
    /\ call.method = "method2" /\ call.stage = "prompt"
    /\ Method2_prompt_uses_llm => Pending("prompt LLM")
    /\ IF call.prompt = None
       THEN /\ \E analysis \in Analyses :
                 call' = [Stage("background") EXCEPT
                            !.final_prompt = generate_for_method2(analysis)]
            /\ UNCHANGED enhancer_calls
       ELSE IF m2.prompt_enhancer
            THEN /\ \E outcome \in LLMOutcomes :
                      call' = [Stage("background") EXCEPT
                                 !.final_prompt = build_background_prompt(
                                     call.prompt, call.style_preset, TRUE, outcome)]
                 /\ enhancer_calls' = Append(enhancer_calls, "enhance_for_nanobanan")
            ELSE /\ call' = [Stage("background") EXCEPT
                                !.final_prompt = build_background_prompt(
                                    call.prompt, call.style_preset, FALSE, Unavailable)]
                 /\ UNCHANGED enhancer_calls
    /\ in_progress' = in_progress \ {"prompt LLM"}
    /\ UNCHANGED <<args, env_key, comp, log, config, pc, m1, m2, loop, results, saved,
                   requests, pipe_calls, mk>>

\* Stage 5 handing the generated background straight to the save step
Method2_generate_background_then_save ==
    /\ call.method = "method2" /\ call.stage = "background"
    /\ Pending("background generation")
    /\ requests' = Append(requests,
                          [prompt |-> call.final_prompt,
                           contents |-> generate_background_contents(call.final_prompt)])
    /\ \/ call' = [Stage("save") EXCEPT !.image = "background"] /\ pc' = pc
       \/ Fail
    /\ in_progress' = in_progress \ {"background generation"}
    /\ UNCHANGED <<args, env_key, comp, log, config, m1, m2, loop, results, saved,
                   pipe_calls, enhancer_calls, mk>>

\* Stage 5: nano_banana.generate_background (raises when the answer holds no image)
Method2_generate_background ==
    /\ call.method = "method2" /\ call.stage = "background"
    /\ Pending("background generation")
    /\ requests' = Append(requests,
                          [prompt |-> call.final_prompt,
                           contents |-> generate_background_contents(call.final_prompt)])
    /\ \/ call' = [Stage("composite") EXCEPT !.image = "background"] /\ pc' = pc
       \/ Fail
    /\ in_progress' = in_progress \ {"background generation"}
    /\ UNCHANGED <<args, env_key, comp, log, config, m1, m2, loop, results, saved,
                   pipe_calls, enhancer_calls, mk>>

\* Stage 6 keeping the background instead of the blend
Method2_composite_keeps_background ==
    /\ call.method = "method2" /\ call.stage = "composite"
    /\ call' = Stage("save")
    /\ UNCHANGED <<args, env_key, comp, log, in_progress, config, pc, m1, m2, loop, results, saved,
                   requests, pipe_calls, enhancer_calls, mk>>

\* Stage 6: compositor.composite(foreground, background, mask)
Method2_composite ==
    /\ call.method = "method2" /\ call.stage = "composite"
    /\ call' = [Stage("save") EXCEPT !.image = "composite"]
    /\ UNCHANGED <<args, env_key, comp, log, in_progress, config, pc, m1, m2, loop, results, saved,
                   requests, pipe_calls, enhancer_calls, mk>>

\* Save result: the default path when output_path is None
Method2_save_image ==
    /\ call.method = "method2" /\ call.stage = "save"
    /\ LET output_path == IF call.output_path = NoPath
                           THEN ResultPath("method2") ELSE call.output_path
       IN  \/ /\ saved' = Append(saved, [path |-> save_image(output_path),
                                          image |-> call.image,
                                          method |-> "method2"])
              /\ call' = [Stage(IF config.show_stages THEN "visualize" ELSE "return")
                            EXCEPT !.output_path = save_image(output_path)]
              /\ pc' = pc
           \/ Fail /\ UNCHANGED saved
    /\ UNCHANGED <<args, env_key, comp, log, in_progress, config, m1, m2, loop, results,
                   requests, pipe_calls, enhancer_calls, mk>>

\* Visualize stages (_visualize_pipeline swallows its exceptions)
Method2_visualize ==
    /\ call.method = "method2" /\ call.stage = "visualize"
    /\ call' = Stage("return")
    /\ UNCHANGED <<args, env_key, comp, log, in_progress, config, pc, m1, m2, loop, results, saved,
                   requests, pipe_calls, enhancer_calls, mk>>

\* return saved_path, back in main or in the loop of generate_multiple_variations
Method2_return ==
    /\ call.method = "method2" /\ call.stage = "return"
    /\ results' = Append(results, call.output_path)
    /\ call' = NoCall
    /\ IF pc = "m2_vars"
       THEN loop' = [loop EXCEPT !.i = @ + 1] /\ pc' = pc
       ELSE loop' = loop /\ pc' = "done"
    /\ UNCHANGED <<args, env_key, comp, log, in_progress, config, m1, m2, saved,
                   requests, pipe_calls, enhancer_calls, mk>>

(***************************************************************************)
(* Method 1: _build_controlnet_prompt                                      *)
(***************************************************************************)
build_controlnet_prompt(prompt, product_description, style_preset, enhancer, outcome) ==
    LET product == IF product_description = None
                   THEN <<"a", "input">> ELSE product_description
        background_desc == IF style_preset # NoStyle
                           THEN apply_style_preset(prompt, style_preset)
                           ELSE prompt
    IN  IF enhancer
        THEN enhance_for_controlnet(product, background_desc, outcome)
        ELSE <<"This photo showcases">> \o product
             \o <<"The product is clearly highlighted and prominently displayed, placed in">>
             \o background_desc
             \o <<"The overall image maintains a",
                  "clean, professional, and visually appealing", "visual style">>

(***************************************************************************)
(* ControlNetHandler.inpaint_background: the parameters handed to the      *)
(* pipeline (scales in tenths)                                             *)
(***************************************************************************)
Seed == 42
NumInferenceSteps == 30
TrueCfgScale == 40
ControlnetConditioningScale == 10

inpaint_parameters(prompt) ==
    [prompt |-> prompt, seed |-> Seed, num_inference_steps |-> NumInferenceSteps,
     true_cfg_scale |-> TrueCfgScale,
     controlnet_conditioning_scale |-> ControlnetConditioningScale]

(***************************************************************************)
(* Method1ControlNetInpaint.generate, one action per stage                 *)
(***************************************************************************)
\* Stage 1: image_loader.load_image
Method1_load_image ==
    /\ call.method = "method1" /\ call.stage = "load"
    /\ \/ call' = Stage("extract") /\ pc' = pc
       \/ Fail
    /\ UNCHANGED <<args, env_key, comp, log, in_progress, config, m1, m2, loop, results, saved,
                   requests, pipe_calls, enhancer_calls, mk>>

\* Stage 2: fg_extractor.extract_foreground
Method1_extract_foreground ==
    /\ call.method = "method1" /\ call.stage = "extract"
    /\ Pending("segmentation")
    /\ \/ call' = Stage("mask") /\ pc' = pc
       \/ Fail
    /\ in_progress' = in_progress \ {"segmentation"}
    /\ UNCHANGED <<args, env_key, comp, log, config, m1, m2, loop, results, saved,
                   requests, pipe_calls, enhancer_calls, mk>>

\* Stage 3: mask_processor.process_mask(mask, 'for_inpainting')
Method1_process_mask ==
    /\ call.method = "method1" /\ call.stage = "mask"
    /\ call' = Stage("prompt")
    /\ UNCHANGED <<args, env_key, comp, log, in_progress, config, pc, m1, m2, loop, results, saved,
                   requests, pipe_calls, enhancer_calls, mk>>

\* Stage 4: the final prompt.  The auto-generated prompt is used whenever
\* prompt is None; _build_controlnet_prompt otherwise, with the detected
\* product description when none was given.
Method1_final_prompt ==
    /\ call.method = "method1" /\ call.stage = "prompt"
    /\ Pending("prompt LLM")
    /\ IF call.prompt = None
       THEN /\ \E analysis \in Analyses :
                 call' = [Stage("inpaint") EXCEPT
                            !.final_prompt = generate_for_method1(analysis),
                            !.product_used = analysis.product_description]
            /\ UNCHANGED enhancer_calls
       ELSE \E analysis \in Analyses :
              LET product == IF call.product_description = None
                             THEN analysis.product_description
                             ELSE call.product_description
              IN  IF m1.prompt_enhancer
                  THEN /\ \E outcome \in LLMOutcomes :
                            call' = [Stage("inpaint") EXCEPT
                                       !.final_prompt = build_controlnet_prompt(
                                           call.prompt, product, call.style_preset,
                                           TRUE, outcome),
                                       !.product_used = product]
                       /\ enhancer_calls' = Append(enhancer_calls, "enhance_for_controlnet")
                  ELSE /\ call' = [Stage("inpaint") EXCEPT
                                      !.final_prompt = build_controlnet_prompt(
                                          call.prompt, product, call.style_preset,
                                          FALSE, Unavailable),
                                      !.product_used = product]
                       /\ UNCHANGED enhancer_calls
    /\ in_progress' = in_progress \ {"prompt LLM"}
    /\ UNCHANGED <<args, env_key, comp, log, config, pc, m1, m2, loop, results, saved,
                   requests, pipe_calls, mk>>

\* Stage 5: controlnet.inpaint_background (loading the model or the
\* inference may raise)
Method1_inpaint_background ==
    /\ call.method = "method1" /\ call.stage = "inpaint"
    /\ Pending("diffusion inpainting")
    /\ \/ /\ pipe_calls' = Append(pipe_calls, inpaint_parameters(call.final_prompt))
          /\ call' = [Stage("save") EXCEPT !.image = "inpainted"]
          /\ pc' = pc
       \/ Fail /\ UNCHANGED pipe_calls
    /\ in_progress' = in_progress \ {"diffusion inpainting"}
    /\ UNCHANGED <<args, env_key, comp, log, config, m1, m2, loop, results, saved,
                   requests, enhancer_calls, mk>>

\* Stage 6: save the image returned by the inpainting
Method1_save_image ==
    /\ call.method = "method1" /\ call.stage = "save"
    /\ LET output_path == IF call.output_path = NoPath
                           THEN ResultPath("method1") ELSE call.output_path
       IN  \/ /\ saved' = Append(saved, [path |-> save_image(output_path),
                                          image |-> call.image,
                                          method |-> "method1"])
              /\ call' = [Stage(IF config.show_stages THEN "visualize" ELSE "return")
                            EXCEPT !.output_path = save_image(output_path)]
              /\ pc' = pc
           \/ Fail /\ UNCHANGED saved
    /\ UNCHANGED <<args, env_key, comp, log, in_progress, config, m1, m2, loop, results,
                   requests, pipe_calls, enhancer_calls, mk>>

\* Visualize stages
Method1_visualize ==
    /\ call.method = "method1" /\ call.stage = "visualize"
    /\ call' = Stage("return")
    /\ UNCHANGED <<args, env_key, comp, log, in_progress, config, pc, m1, m2, loop, results, saved,
                   requests, pipe_calls, enhancer_calls, mk>>

\* return saved_path, back in main or in the loop of generate_with_variations
Method1_return ==
    /\ call.method = "method1" /\ call.stage = "return"
    /\ results' = Append(results, call.output_path)
    /\ call' = NoCall
    /\ IF pc = "m1_vars"
       THEN loop' = [loop EXCEPT !.i = @ + 1] /\ pc' = pc
       ELSE loop' = loop /\ pc' = IF pc = "both_m1" THEN "construct2" ELSE "done"
    /\ UNCHANGED <<args, env_key, comp, log, in_progress, config, m1, m2, saved,
                   requests, pipe_calls, enhancer_calls, mk>>

(***************************************************************************)
(* MaskProcessor.  A mask is a sequence of rows of 8-bit pixels.           *)
(***************************************************************************)
MaskWidth == 24
MaskHeight == 2
MaxRun == 2

Width(img) == Len(img[1])
Height(img) == Len(img)

Max(S) == CHOOSE m \in S : \A v \in S : v <= m

\* a sequence with its elements computed
Computed(s) == SubSeq(s, 1, Len(s))

Transpose(img) ==
    Computed([x \in 1..Width(img) |-> Computed([y \in 1..Height(img) |-> img[y][x]])])

\* border handling: scipy's mode='reflect' (d c b a | a b c d | d c b a)
\* and the edge replication of PIL's filters
Reflect(i, n) == LET m == (i - 1) % (2 * n) IN IF m < n THEN m + 1 ELSE 2 * n - m
Clamp(i, n) == IF i < 1 THEN 1 ELSE IF i > n THEN n ELSE i
Border(i, n, reflect) == IF reflect THEN Reflect(i, n) ELSE Clamp(i, n)

\* the maximum of line over the window from..to, best when it is empty
MaxWindow(line, from, to, reflect, best) ==
    Max({best} \cup {line[Border(i, Len(line), reflect)] : i \in from..to})

\* a square maximum filter is the filter of the rows followed by the
\* filter of the columns
MaxLines(img, p, reflect) ==
    Computed([y \in 1..Height(img) |-> Computed([x \in 1..Width(img) |->
        MaxWindow(img[y], x - p, x + p, reflect, 0)])])

SquareMaximum(img, size, reflect) ==
    Transpose(MaxLines(Transpose(MaxLines(img, size \div 2, reflect)),
                       size \div 2, reflect))

\* scipy.ndimage.maximum_filter(mask_array, size=size)
maximum_filter(img, size) == SquareMaximum(img, size, TRUE)

\* mask.filter(ImageFilter.MaxFilter(size=size)), used when scipy is missing
MaxFilter(img, size) == SquareMaximum(img, size, FALSE)

\* _expand_mask with a window of pixels instead of 2*pixels+1
expand_mask_narrow(mask, pixels, scipy_available) ==
    IF pixels <= 0 THEN mask
    ELSE IF scipy_available THEN maximum_filter(mask, pixels)
    ELSE MaxFilter(mask, pixels)

\* _expand_mask(mask, pixels): a (2*pixels+1)-square maximum filter
expand_mask(mask, pixels, scipy_available) ==
    IF pixels <= 0 THEN mask
    ELSE IF scipy_available THEN maximum_filter(mask, pixels * 2 + 1)
    ELSE MaxFilter(mask, pixels * 2 + 1)

(***************************************************************************)
(* ImageFilter.GaussianBlur(radius): three passes of an extended box blur  *)
(* in each direction.  The box radius is l + an/ad with                    *)
(*   l  = the largest l with (2l+1)^2 <= 12*sigma2 + 1, sigma2 = radius^2/3 *)
(*   a  = (2l+1)(l(l+1) - 3 sigma2) / (6 (sigma2 - (l+1)^2));              *)
(* a pass weighs the 2l+1 inner pixels by ww and the two outer ones by fw, *)
(* in 24-bit fixed point, and rounds.                                      *)
(***************************************************************************)
Passes == 3
Fix == 16777216       \* 1 << 24
Half == 4096          \* 1 << 12, to keep the products within 32 bits

BoxL(radius) == Max({ l \in 0..radius : (2 * l + 1) * (2 * l + 1) <= 4 * radius * radius + 1 })
BoxAn(radius) == (2 * BoxL(radius) + 1) * (radius * radius - BoxL(radius) * (BoxL(radius) + 1))
BoxAd(radius) == 6 * (BoxL(radius) + 1) * (BoxL(radius) + 1) - 2 * radius * radius
RECURSIVE GCD(_, _)
GCD(a, b) == IF b = 0 THEN a ELSE GCD(b, a % b)

\* ww = (1 << 24) / (floatRadius * 2 + 1), floatRadius = l + an/ad; the
\* fraction is reduced to keep the product within 32 bits
BoxWW(radius) ==
    LET den == 2 * (BoxL(radius) * BoxAd(radius) + BoxAn(radius)) + BoxAd(radius)
        g == GCD(BoxAd(radius), den)
    IN  (Fix * (BoxAd(radius) \div g)) \div (den \div g)
\* fw = ((1 << 24) - (radius * 2 + 1) * ww) / 2
BoxFW(radius) == (Fix - (2 * BoxL(radius) + 1) * BoxWW(radius)) \div 2

\* the line extended by l + 1 pixels on both sides; the pixels beyond an
\* edge repeat the pixel of the edge
Padded(line, l) ==
    Computed([i \in 1..(Len(line) + 2 * l + 2) |-> line[Clamp(i - l - 1, Len(line))]])

\* the running sums of a line: sums[k] = line[1] + ... + line[k]
RECURSIVE RunningSums(_, _)
RunningSums(line, sums) ==
    IF Len(sums) = Len(line) THEN sums
    ELSE RunningSums(line, Append(sums,
            (IF sums = << >> THEN 0 ELSE sums[Len(sums)]) + line[Len(sums) + 1]))

\* lineOut[x] = (acc * ww + (far left + far right) * fw + (1 << 23)) >> 24
\* with acc the sum of the pixels x-l..x+l, kept as a running sum
BoxBlurPixel(pad, sums, x, l, ww, fw) ==
    LET acc == sums[x + 2 * l + 1] - sums[x]
        far == pad[x] + pad[x + 2 * l + 2]
        hi == acc * (ww \div Half) + far * (fw \div Half)
        lo == acc * (ww % Half) + far * (fw % Half)
    IN  (hi + (Half \div 2) + (lo \div Half)) \div Half

\* one line of a box blur; the padded line, its sums and the weights are
\* computed once for the line
BoxBlurLine(line, l, ww, fw) ==
    CHOOSE out \in
        { Computed([x \in 1..Len(line) |->
                      BoxBlurPixel(c[1], c[2], x, c[3], c[4], c[5])]) :
            c \in { <<pad, RunningSums(pad, << >>), l, ww, fw>> :
                      pad \in {Padded(line, l)} } } : TRUE

RECURSIVE HorizontalBoxBlur(_, _, _, _, _)
HorizontalBoxBlur(img, l, ww, fw, n) ==
    IF n = 0 THEN img
    ELSE HorizontalBoxBlur(
            Computed([y \in 1..Height(img) |-> BoxBlurLine(img[y], l, ww, fw)]),
            l, ww, fw, n - 1)

BoxBlur(img, l, ww, fw) ==
    Transpose(HorizontalBoxBlur(
        Transpose(HorizontalBoxBlur(img, l, ww, fw, Passes)), l, ww, fw, Passes))

GaussianBlur(img, radius) == BoxBlur(img, BoxL(radius), BoxWW(radius), BoxFW(radius))

\* _feather_edges(mask, pixels)
feather_edges(mask, pixels) ==
    IF pixels <= 0 THEN mask ELSE GaussianBlur(mask, pixels)

\* ImageOps.invert
invert(img) == [y \in 1..Height(img) |-> [x \in 1..Width(img) |-> 255 - img[y][x]]]

\* mask_config defaults
ExpandMask == 10
FeatherPixels == 3
BlurAmount == 5

\* the masks of the model: a block of product pixels (255) in columns
\* x0..x1 of rows y0..y1, a soft value beside it, background (0) elsewhere
BlockMask(x0, x1, y0, y1, soft) ==
    [y \in 1..MaskHeight |-> [x \in 1..MaskWidth |->
        IF y \in y0..y1 /\ x \in x0..x1 THEN 255
        ELSE IF y \in y0..y1 /\ x \in {x0 - 1, x1 + 1} THEN soft
        ELSE 0]]

Masks ==
    { BlockMask(x0, x0 + run - 1, y0, y1, soft) :
        x0 \in 1..MaskWidth, run \in 1..MaxRun, y0 \in 1..MaskHeight,
        y1 \in 1..MaskHeight, soft \in {0, 128} }

Operations == {"for_inpainting", "for_compositing", "for_preview"}

MaskStep(stage, result, step) ==
    [mk EXCEPT !.stage = stage, !.result = result, !.applied = Append(@, step)]

\* process_mask('for_inpainting') -> _prepare_inpainting_mask: expand
mask_expand ==
    /\ mk.stage = "called" /\ mk.operation = "for_inpainting"
    /\ mk' = MaskStep("feather", expand_mask(mk.mask, ExpandMask, mk.scipy), "expand")
    /\ UNCHANGED <<args, env_key, comp, log, in_progress, config, pc, m1, m2, loop, call, results, saved,
                   requests, pipe_calls, enhancer_calls>>

\* _prepare_inpainting_mask: feather the expanded mask
mask_feather ==
    /\ mk.stage = "feather"
    /\ mk' = MaskStep("invert", feather_edges(mk.result, FeatherPixels), "feather")
    /\ UNCHANGED <<args, env_key, comp, log, in_progress, config, pc, m1, m2, loop, call, results, saved,
                   requests, pipe_calls, enhancer_calls>>

\* _prepare_inpainting_mask: invert, and return
mask_invert ==
    /\ mk.stage = "invert"
    /\ mk' = MaskStep("returned", invert(mk.result), "invert")
    /\ UNCHANGED <<args, env_key, comp, log, in_progress, config, pc, m1, m2, loop, call, results, saved,
                   requests, pipe_calls, enhancer_calls>>

\* _prepare_compositing_mask returning the blurred mask inverted
mask_compositing_inverted ==
    /\ mk.stage = "called" /\ mk.operation = "for_compositing"
    /\ mk' = MaskStep("returned", invert(GaussianBlur(mk.mask, BlurAmount)), "blur")
    /\ UNCHANGED <<args, env_key, comp, log, in_progress, config, pc, m1, m2, loop, call, results, saved,
                   requests, pipe_calls, enhancer_calls>>

\* process_mask('for_compositing') -> _prepare_compositing_mask
mask_compositing ==
    /\ mk.stage = "called" /\ mk.operation = "for_compositing"
    /\ mk' = MaskStep("returned", GaussianBlur(mk.mask, BlurAmount), "blur")
    /\ UNCHANGED <<args, env_key, comp, log, in_progress, config, pc, m1, m2, loop, call, results, saved,
                   requests, pipe_calls, enhancer_calls>>

\* process_mask with any other operation returns the mask it was given
mask_unknown_operation ==
    /\ mk.stage = "called"
    /\ mk.operation \notin {"for_inpainting", "for_compositing"}
    /\ mk' = [mk EXCEPT !.stage = "returned", !.result = mk.mask]
    /\ UNCHANGED <<args, env_key, comp, log, in_progress, config, pc, m1, m2, loop, call, results, saved,
                   requests, pipe_calls, enhancer_calls>>

(***************************************************************************)
(* CompositingEngine.  An image is a sequence of rows; a colour is one     *)
(* 8-bit channel, the three channels of RGB being treated alike.           *)
(***************************************************************************)
CompWidth == 2
CompHeight == 24
MaxTop == 3

CompPixels == (1..CompHeight) \X (1..CompWidth)

\* Pillow's DIV255(a, tmp): tmp = a + 128, ((tmp >> 8) + tmp) >> 8
Div255(a) == LET tmp == a + 128 IN ((tmp \div 256) + tmp) \div 256

\* Pillow's BLEND8(mask, in1, in2)
Blend8(mask, in1, in2) == Div255(in1 * (255 - mask) + in2 * mask)

\* out.paste(in, mask=mask) with an L mask
paste(out, in, mask) ==
    Computed([y \in 1..Height(out) |-> Computed([x \in 1..Width(out) |->
        Blend8(mask[y][x], out[y][x], in[y][x])])])

\* Image.composite(image1, image2, mask): image2.copy() with image1 pasted
Image_composite(image1, image2, mask) == paste(image2, image1, mask)

\* Image.new('RGB', size): black
Image_new(img) == [y \in 1..Height(img) |-> [x \in 1..Width(img) |-> 0]]

\* _refine_edges(mask)
refine_edges(mask) == GaussianBlur(mask, 1)

\* _add_shadow defaults: shadow_opacity 0.3 (in tenths), shadow_blur, shift_pixels
ShadowOpacity == 3
ShadowBlur == 15
ShiftPixels == 20

\* shadow_shifted[shift_pixels:, :] = shadow_array[:-shift_pixels, :]
shift_down(mask) ==
    Computed([y \in 1..Height(mask) |-> Computed([x \in 1..Width(mask) |->
        IF y > ShiftPixels THEN mask[y - ShiftPixels][x] ELSE 0])])

\* (bg * (1 - shadow / 255.0 * 0.3)).astype(uint8): the truncated product.
\* In double precision the product falls just below the exact integer for
\* the pairs of FloatShortfall.
FloatShortfall == {<<90, 255>>, <<153, 200>>, <<170, 255>>, <<180, 255>>}
shadow_pixel(bg, shadow) ==
    (bg * (2550 - ShadowOpacity * shadow)) \div 2550
        - (IF <<bg, shadow>> \in FloatShortfall THEN 1 ELSE 0)

\* _add_shadow(background, mask)
add_shadow(background, mask) ==
    LET shadow_mask == GaussianBlur(shift_down(mask), ShadowBlur)
    IN  Computed([y \in 1..Height(background) |->
            Computed([x \in 1..Width(background) |->
                shadow_pixel(background[y][x], shadow_mask[y][x])])])

\* the images of the model: a product band of rows top..bottom, over the
\* whole width or over the first column only
BandMask(top, bottom, whole, inside) ==
    [y \in 1..CompHeight |-> [x \in 1..CompWidth |->
        IF y \in top..bottom /\ (whole \/ x = 1) THEN inside ELSE 0]]

BandLengths == {2, 10}

Bands ==
    { BandMask(top, top + len - 1, whole, 255) :
        top \in 1..MaxTop, len \in BandLengths, whole \in BOOLEAN }

\* alpha channels of the foreground for a band: the band itself, the band
\* half transparent, or an opaque image
Alphas(band) ==
    { band,
      [y \in 1..CompHeight |-> [x \in 1..CompWidth |->
          IF band[y][x] = 255 THEN 128 ELSE 0]],
      [y \in 1..CompHeight |-> [x \in 1..CompWidth |-> 255]] }

ForegroundColours ==
    [y \in 1..CompHeight |-> [x \in 1..CompWidth |-> (37 * y + 11 * x) % 256]]

Backgrounds ==
    { [y \in 1..CompHeight |-> [x \in 1..CompWidth |-> 255]],
      [y \in 1..CompHeight |-> [x \in 1..CompWidth |-> (90 + 30 * x + 3 * y) % 256]] }

CompStep(stage, step) ==
    [comp EXCEPT !.stage = stage, !.applied = Append(@, step)]

\* use the provided mask or the alpha channel of the foreground
composite_mask ==
    /\ comp.stage = "called"
    /\ comp' = [comp EXCEPT !.stage = "refine",
                            !.mask = IF comp.mask_given THEN comp.mask
                                     ELSE comp.alpha]
    /\ UNCHANGED <<args, env_key, log, in_progress, config, pc, m1, m2, loop, call,
                   results, saved, requests, pipe_calls, enhancer_calls, mk>>

\* apply edge refinement if enabled
composite_refine_edges ==
    /\ comp.stage = "refine"
    /\ comp' = IF comp.edge_refinement
               THEN [CompStep("shadow", "refine") EXCEPT
                        !.mask = refine_edges(comp.mask)]
               ELSE [comp EXCEPT !.stage = "shadow"]
    /\ UNCHANGED <<args, env_key, log, in_progress, config, pc, m1, m2, loop, call,
                   results, saved, requests, pipe_calls, enhancer_calls, mk>>

\* generate shadow if enabled: background_rgb becomes the shadowed background
composite_add_shadow ==
    /\ comp.stage = "shadow"
    /\ comp' = IF comp.shadow_generation
               THEN [CompStep("paste", "shadow") EXCEPT
                        !.background_rgb = add_shadow(comp.background_rgb, comp.mask)]
               ELSE [comp EXCEPT !.stage = "paste"]
    /\ UNCHANGED <<args, env_key, log, in_progress, config, pc, m1, m2, loop, call,
                   results, saved, requests, pipe_calls, enhancer_calls, mk>>

\* foreground_rgb: the foreground pasted on black through its alpha channel
composite_foreground_rgb ==
    /\ comp.stage = "paste"
    /\ comp' = [CompStep("blend", "paste") EXCEPT
                  !.foreground_rgb = paste(Image_new(comp.foreground),
                                           comp.foreground, comp.alpha)]
    /\ UNCHANGED <<args, env_key, log, in_progress, config, pc, m1, m2, loop, call,
                   results, saved, requests, pipe_calls, enhancer_calls, mk>>

\* the blend taking the background as it was passed in
composite_blend_plain_background ==
    /\ comp.stage = "blend"
    /\ comp' = [CompStep("returned", "blend") EXCEPT
                  !.result = Image_composite(comp.foreground_rgb,
                                             comp.background, comp.mask)]
    /\ UNCHANGED <<args, env_key, log, in_progress, config, pc, m1, m2, loop, call,
                   results, saved, requests, pipe_calls, enhancer_calls, mk>>

\* blend using the mask; _match_colors returns the composite as it is
composite_blend ==
    /\ comp.stage = "blend"
    /\ comp' = [CompStep("returned", "blend") EXCEPT
                  !.result = Image_composite(comp.foreground_rgb,
                                             comp.background_rgb, comp.mask)]
    /\ UNCHANGED <<args, env_key, log, in_progress, config, pc, m1, m2, loop, call,
                   results, saved, requests, pipe_calls, enhancer_calls, mk>>

(***************************************************************************)
(* The program                                                             *)
(***************************************************************************)
NoMask == [stage |-> "off"]
NoComposite == [stage |-> "off"]

Init ==
    /\ args \in [input_exists : BOOLEAN, prompt : Prompts, product : Products,
                  method : Methods \cup {NoMethod}, style : Styles,
                  output : Outputs, api_key : Keys,
                  variations : 1..MaxVariations, no_enhance : BOOLEAN]
    /\ env_key \in EnvKeys
    /\ config \in [method : {"method1_controlnet"},
                    prompt_enhancement_enabled : {TRUE},
                    use_smart_enhancer : BOOLEAN,
                    enhance_background_prompts : BOOLEAN,
                    show_stages : BOOLEAN]
    /\ pc = "start"
    /\ m1 = [constructed |-> FALSE, prompt_enhancer |-> FALSE]
    /\ m2 = [constructed |-> FALSE, prompt_enhancer |-> FALSE]
    /\ loop = NoLoop
    /\ call = NoCall
    /\ results = << >>
    /\ saved = << >>
    /\ requests = << >>
    /\ pipe_calls = << >>
    /\ enhancer_calls = << >>
    /\ mk = NoMask
    /\ log = << >>
    /\ in_progress = {}
    /\ comp = NoComposite

Next ==
    \/ main_start
    \/ Method1_init
    \/ Method2_init
    \/ generate_multiple_variations_start
    \/ generate_multiple_variations_iter
    \/ generate_with_variations_iter
    \/ variations_return
    \/ main_call_method1
    \/ main_call_method2
    \/ Method1_call_collaborator
    \/ Method2_call_collaborator
    \/ Method1_load_image
    \/ Method1_extract_foreground
    \/ Method1_process_mask
    \/ Method1_final_prompt
    \/ Method1_inpaint_background
    \/ Method1_save_image
    \/ Method1_visualize
    \/ Method1_return
    \/ Method2_load_image
    \/ Method2_extract_foreground
    \/ Method2_process_mask
    \/ Method2_background_prompt
    \/ Method2_generate_background
    \/ Method2_composite
    \/ Method2_save_image
    \/ Method2_visualize
    \/ Method2_return

Spec == Init /\ [][Next]_vars

(***************************************************************************)
(* The mask processor on its own: process_mask applied to the masks of     *)
(* Masks, with and without scipy                                           *)
(***************************************************************************)
MaskInit ==
    /\ args = [input_exists |-> TRUE, prompt |-> None, product |-> None,
               method |-> NoMethod, style |-> NoStyle, output |-> NoPath,
               api_key |-> NoKey, variations |-> 1, no_enhance |-> FALSE]
    /\ env_key = NoKey
    /\ config = [method |-> "method1_controlnet", prompt_enhancement_enabled |-> TRUE,
                 use_smart_enhancer |-> TRUE, enhance_background_prompts |-> TRUE,
                 show_stages |-> TRUE]
    /\ pc = "mask"
    /\ m1 = [constructed |-> FALSE, prompt_enhancer |-> FALSE]
    /\ m2 = [constructed |-> FALSE, prompt_enhancer |-> FALSE]
    /\ loop = NoLoop
    /\ call = NoCall
    /\ results = << >>
    /\ saved = << >>
    /\ requests = << >>
    /\ pipe_calls = << >>
    /\ enhancer_calls = << >>
    /\ log = << >>
    /\ in_progress = {}
    /\ comp = NoComposite
    /\ \E mask \in Masks, operation \in Operations, scipy \in BOOLEAN :
          \* the import of scipy is attempted by _expand_mask only
          /\ operation # "for_inpainting" => scipy
          /\ mk = [stage |-> "called", operation |-> operation, scipy |-> scipy,
                   mask |-> mask, result |-> mask, applied |-> << >>]

MaskNext ==
    \/ mask_expand
    \/ mask_feather
    \/ mask_invert
    \/ mask_compositing
    \/ mask_unknown_operation

MaskSpec == MaskInit /\ [][MaskNext]_vars

(***************************************************************************)
(* The compositing engine on its own: composite applied to the images of   *)
(* the model, with and without a mask argument, edge refinement and shadow *)
(***************************************************************************)
CompositeInit ==
    /\ args = [input_exists |-> TRUE, prompt |-> None, product |-> None,
               method |-> NoMethod, style |-> NoStyle, output |-> NoPath,
               api_key |-> NoKey, variations |-> 1, no_enhance |-> FALSE]
    /\ env_key = NoKey
    /\ config = [method |-> "method2_nanobanan", prompt_enhancement_enabled |-> TRUE,
                 use_smart_enhancer |-> TRUE, enhance_background_prompts |-> TRUE,
                 show_stages |-> TRUE]
    /\ pc = "composite"
    /\ m1 = [constructed |-> FALSE, prompt_enhancer |-> FALSE]
    /\ m2 = [constructed |-> FALSE, prompt_enhancer |-> FALSE]
    /\ loop = NoLoop
    /\ call = NoCall
    /\ results = << >>
    /\ saved = << >>
    /\ requests = << >>
    /\ pipe_calls = << >>
    /\ enhancer_calls = << >>
    /\ log = << >>
    /\ in_progress = {}
    /\ mk = NoMask
    /\ \E band \in Bands, background \in Backgrounds, mask_given \in BOOLEAN,
          edge_refinement \in BOOLEAN, shadow_generation \in BOOLEAN :
          \E alpha \in Alphas(band) :
             comp = [stage |-> "called", foreground |-> ForegroundColours,
                     alpha |-> alpha, background |-> background,
                     mask_given |-> mask_given, mask |-> band,
                     edge_refinement |-> edge_refinement,
                     shadow_generation |-> shadow_generation,
                     background_rgb |-> background,
                     foreground_rgb |-> ForegroundColours,
                     result |-> background, applied |-> << >>]

CompositeNext ==
    \/ composite_mask
    \/ composite_refine_edges
    \/ composite_add_shadow
    \/ composite_foreground_rgb
    \/ composite_blend

CompositeSpec == CompositeInit /\ [][CompositeNext]_vars

Pixels == (1..MaskHeight) \X (1..MaskWidth)

\* C10: in the mask returned by process_mask(mask, 'for_inpainting') with
\* the default settings, every pixel that is 255 in the foreground mask is 0.
C10_ProductPixelsPreserved ==
    (mk.stage = "returned" /\ mk.operation = "for_inpainting") =>
        \A p \in Pixels :
            mk.mask[p[1]][p[2]] = 255 => mk.result[p[1]][p[2]] = 0

\* a returned inpainting mask with a product pixel, a pixel to inpaint
\* fully and a feathered pixel in between
C10_Witness ==
    /\ mk.stage = "returned" /\ mk.operation = "for_inpainting"
    /\ \E p \in Pixels : mk.mask[p[1]][p[2]] = 255
    /\ \E p \in Pixels : mk.result[p[1]][p[2]] = 255
    /\ \E p \in Pixels : mk.result[p[1]][p[2]] \in 1..254

(***************************************************************************)
(* Properties                                                              *)
(***************************************************************************)
Done == pc = "done" /\ args.input_exists

\* the stages a generate() call went through, without the prompt step
PipelineStages == SelectSeq(call.stages, LAMBDA s : s # "prompt")

\* C1: a Method 2 generate() call that returns has run load image, extract
\* foreground, process mask, obtain background, composite, save, each
\* exactly once and in this order, followed by visualize exactly when
\* show_stages is enabled.
C1_Method2StagesInOrder ==
    (call.method = "method2" /\ call.stage = "return") =>
        PipelineStages =
            <<"load", "extract", "mask", "background", "composite", "save">>
            \o (IF config.show_stages THEN <<"visualize">> ELSE << >>)

C1_Witness ==
    /\ call.method = "method2" /\ call.stage = "return"
    /\ config.show_stages
    /\ Len(call.stages) = 8

\* C2 (as stated): every image saved, whichever method produced it, is the
\* output of the compositing stage.
C2_Original_EverySavedImageComposited ==
    \A i \in DOMAIN saved : saved[i].image = "composite"

\* C2 (amended): every image saved by Method 2 is the output of the
\* compositing stage; every image saved by Method 1 is the output of the
\* inpainting pipeline, which has no compositing stage.
C2_Method2SavesComposite ==
    \A i \in DOMAIN saved :
        /\ saved[i].method = "method2" => saved[i].image = "composite"
        /\ saved[i].method = "method1" => saved[i].image = "inpainted"

C2_Witness ==
    /\ Done /\ Method = "both" /\ Len(saved) = 2
    /\ saved[1].method = "method1" /\ saved[2].method = "method2"

\* C3: the text sent to the image model by generate_background is the
\* prompt the caller passed.
C3_RequestCarriesCallersPrompt ==
    \A i \in DOMAIN requests : requests[i].contents = requests[i].prompt

\* C4: a successful method2_nanobanan run with --variations N > 1 returns
\* exactly N result paths.
C4_ExactlyNVariations ==
    (Done /\ Method = "method2_nanobanan" /\ args.variations > 1) =>
        Len(results) = args.variations

\* C5: any two pipeline calls of one generate_with_variations run differ in
\* seed, inference steps, guidance scale or conditioning scale.
C5_VariationsDifferInParameters ==
    pc = "m1_vars" =>
        \A i, j \in DOMAIN pipe_calls :
            i # j =>
                \/ pipe_calls[i].seed # pipe_calls[j].seed
                \/ pipe_calls[i].num_inference_steps # pipe_calls[j].num_inference_steps
                \/ pipe_calls[i].true_cfg_scale # pipe_calls[j].true_cfg_scale
                \/ pipe_calls[i].controlnet_conditioning_scale
                     # pipe_calls[j].controlnet_conditioning_scale

\* C6: with --no-enhance no call of SmartPromptEnhancer is made.
C6_NoEnhanceMeansNoEnhancerCall ==
    args.no_enhance => enhancer_calls = << >>

\* C7: when --output PATH is given and the run succeeds, an image has been
\* saved at PATH (with the suffix as save_image normalises it).
C7_OutputPathHonoured ==
    (Done /\ args.output # NoPath) =>
        \E i \in DOMAIN saved : saved[i].path = save_image(args.output)

\* C8: when --style names an existing preset, every prompt used for a
\* generation contains the preset's prompt text.
C8_PresetTextInEveryPrompt ==
    args.style \in Presets =>
        /\ \A i \in DOMAIN pipe_calls :
              Contains(pipe_calls[i].prompt, PresetPrompt[args.style])
        /\ \A i \in DOMAIN requests :
              Contains(requests[i].prompt, PresetPrompt[args.style])

\* C9: once Method 1 has built its final prompt, the product description
\* it was built from is the caller's whenever the caller gave one.
C9_CallersProductDescriptionUsed ==
    (/\ call.method = "method1"
     /\ call.stage \in {"inpaint", "save", "visualize", "return"}
     /\ call.product_description # None) =>
        call.product_used = call.product_description

(***************************************************************************)
(* The log                                                                 *)
(***************************************************************************)
\* the characters of key appear, in a row, in the text of record
ShowsInFull(record, key) ==
    \E i \in 1..(Len(record) - Len(key) + 1) :
        SubSeq(record, i, i + Len(key) - 1) = key

\* the keys of the run: the --api-key argument and GEMINI_API_KEY
SuppliedKeys == {args.api_key, env_key} \ {NoKey}

\* C11: no log record shows a supplied API key in full, whether the key
\* came from --api-key or from the environment.
C11_KeyNeverLoggedInFull ==
    \A i \in DOMAIN log : \A key \in SuppliedKeys : ~ShowsInFull(log[i], key)

(***************************************************************************)
(* Sequential execution                                                    *)
(***************************************************************************)
\* main has reached the construction of Method 2, or Method 2 exists or runs
Method2Started ==
    pc \in {"construct2", "both_m2"} \/ m2.constructed \/ call.method = "method2"

\* C12: at most one external collaborator call is in progress at any
\* time; in 'both' mode Method 2 is constructed and run only after Method
\* 1's generate has returned the path it saved; when Method 1 raised,
\* Method 2 is not started.
C12_StrictlySequential ==
    /\ Cardinality(in_progress) <= 1
    /\ (Method = "both" /\ Method2Started) =>
          /\ Len(results) >= 1 /\ Len(saved) >= 1
          /\ saved[1].method = "method1"
          /\ results[1] = saved[1].path
          /\ pipe_calls # << >>
    /\ (call.method = "method1" /\ call.stage = "raised") =>
          ~Method2Started /\ requests = << >>

\* 'both' mode with Method 2 waiting for the background generation, the
\* only call in progress, after Method 1 has returned its path
C12_Witness ==
    /\ Method = "both" /\ pc = "both_m2"
    /\ call.method = "method2" /\ in_progress = {"background generation"}
    /\ Len(results) = 1 /\ pipe_calls # << >>

(***************************************************************************)
(* process_mask                                                            *)
(***************************************************************************)
\* how far a blur of the given radius carries a pixel: Passes boxes of
\* half-width BoxL + 1
BlurReach(radius) == Passes * (BoxL(radius) + 1)

Distance(a, b) == IF a > b THEN a - b ELSE b - a

\* no pixel of the input mask within reach of p is set
FarFromProduct(p, reach) ==
    \A q \in Pixels :
        mk.mask[q[1]][q[2]] # 0 =>
            Distance(p[1], q[1]) > reach \/ Distance(p[2], q[2]) > reach

\* C13: process_mask returns, for 'for_inpainting', the mask dilated, then
\* feathered, then inverted, in this order (so background far from the
\* product is 255); for 'for_compositing' the mask blurred only and not
\* inverted (background far from the product stays 0); for any other
\* operation the input mask itself, with no step applied.
C13_ProcessMaskOperations ==
    mk.stage = "returned" =>
        /\ mk.operation = "for_inpainting" =>
              /\ mk.applied = <<"expand", "feather", "invert">>
              /\ \A p \in Pixels :
                    FarFromProduct(p, ExpandMask + BlurReach(FeatherPixels)) =>
                        mk.result[p[1]][p[2]] = 255
        /\ mk.operation = "for_compositing" =>
              /\ mk.applied = <<"blur">>
              /\ \A p \in Pixels :
                    FarFromProduct(p, BlurReach(BlurAmount)) =>
                        mk.result[p[1]][p[2]] = 0
        /\ mk.operation \notin {"for_inpainting", "for_compositing"} =>
              mk.applied = << >> /\ mk.result = mk.mask

\* a compositing mask returned blurred, with soft pixels around the
\* product and background left at 0 far from it
C13_Witness ==
    /\ mk.stage = "returned" /\ mk.operation = "for_compositing"
    /\ mk.result # mk.mask
    /\ \E p \in Pixels : FarFromProduct(p, BlurReach(BlurAmount))
    /\ \E p \in Pixels : mk.mask[p[1]][p[2]] = 0 /\ mk.result[p[1]][p[2]] > 0

(***************************************************************************)
(* composite                                                               *)
(***************************************************************************)
\* position of step in the steps applied, 0 when it was not applied
StepIndex(step) ==
    IF \E i \in DOMAIN comp.applied : comp.applied[i] = step
    THEN CHOOSE i \in DOMAIN comp.applied : comp.applied[i] = step
    ELSE 0

\* C14: in composite the shadow (when enabled) is applied to the
\* background before the blend, and the blend is per pixel by the refined
\* mask: where the mask is 255 and the foreground alpha is 255 the output
\* is the foreground pixel whatever the shadow, and where the mask is 0
\* the output is the pixel of the shadowed background.
C14_ShadowThenBlendByMask ==
    comp.stage = "returned" =>
        /\ comp.shadow_generation =>
              0 < StepIndex("shadow") /\ StepIndex("shadow") < StepIndex("blend")
        /\ StepIndex("blend") = Len(comp.applied)
        /\ \A p \in CompPixels :
              /\ (comp.mask[p[1]][p[2]] = 255 /\ comp.alpha[p[1]][p[2]] = 255) =>
                    comp.result[p[1]][p[2]] = comp.foreground[p[1]][p[2]]
              /\ comp.mask[p[1]][p[2]] = 0 =>
                    comp.result[p[1]][p[2]] = comp.background_rgb[p[1]][p[2]]

\* a composite with edge refinement and shadow where the shadow darkens
\* the background under an opaque product pixel kept from the foreground
\* and under a pixel outside the mask
C14_Witness ==
    /\ comp.stage = "returned" /\ comp.shadow_generation /\ comp.edge_refinement
    /\ \E p \in CompPixels :
          /\ comp.mask[p[1]][p[2]] = 255 /\ comp.alpha[p[1]][p[2]] = 255
          /\ comp.background_rgb[p[1]][p[2]] < comp.background[p[1]][p[2]]
          /\ comp.result[p[1]][p[2]] # comp.background_rgb[p[1]][p[2]]
    /\ \E p \in CompPixels :
          /\ comp.mask[p[1]][p[2]] = 0
          /\ comp.background_rgb[p[1]][p[2]] < comp.background[p[1]][p[2]]
    /\ \E p \in CompPixels : comp.mask[p[1]][p[2]] \in 1..254

====
